---- MODULE Spec2Model ----
(***************************************************************************)
(* Model of src/llm_data_checker.py: get_structure_pattern and             *)
(* df_checker_v2.                                                          *)
(*                                                                         *)
(* Text is a sequence of one-character strings.  A missing cell is the     *)
(* empty tuple NA, a present cell v is <<v>>.  A reported value is a       *)
(* record [kind, val]; floats are kept in fixed point, the scale being     *)
(* that of the rounding the code applies to the field.                     *)
(***************************************************************************)
EXTENDS Integers, Sequences, FiniteSets, TLC

VARIABLES
    \* get_structure_pattern
    val, val_str, i, structure, sp_pc, sp_ret,
    \* df_checker_v2
    data, pc, shape, dtype_counts, numeric_cols, cat_cols, cols_high_missing,
    outer_i, inner_i, col, column_profiles, column_name_profiles,
    column_name_profiles_bound, report,
    \* repeated calls on reordered rows
    first_data, first_report, calls

sp_vars == <<val, val_str, i, structure, sp_pc, sp_ret>>
df_vars == <<data, pc, shape, dtype_counts, numeric_cols, cat_cols,
             cols_high_missing, outer_i, inner_i, col, column_profiles,
             column_name_profiles, column_name_profiles_bound, report>>
re_vars == <<first_data, first_report, calls>>
vars == <<sp_vars, df_vars, re_vars>>

----------------------------------------------------------------------------
(* Characters and Python's str predicates on them *)

Lower == {"a","b","c","d","e","f","g","h","i","j","k","l","m",
          "n","o","p","q","r","s","t","u","v","w","x","y","z"}
Upper == {"A","B","C","D","E","F","G","H","I","J","K","L","M",
          "N","O","P","Q","R","S","T","U","V","W","X","Y","Z"}
DigitChars == <<"0","1","2","3","4","5","6","7","8","9">>
Digit == {DigitChars[k] : k \in 1..10}

isalpha(c) == c \in Lower \cup Upper
isdigit(c) == c \in Digit
isalnum(c) == isalpha(c) \/ isdigit(c)

\* str(count) inside an f-string: the decimal digits of a natural number
RECURSIVE str_int(_)
str_int(n) ==
    IF n < 10 THEN <<DigitChars[n + 1]>>
    ELSE str_int(n \div 10) \o <<DigitChars[(n % 10) + 1]>>

Min(a, b) == IF a < b THEN a ELSE b

----------------------------------------------------------------------------
(* Cells *)

NA == <<>>
isna(cell) == cell = NA

\* A present cell holds a number (n) or a text (s)
Num(x) == [n |-> x, s |-> <<>>]
Str(chars) == [n |-> 0, s |-> chars]

----------------------------------------------------------------------------
(* get_structure_pattern, lines 40-80 *)

TruncLimit == 20

ALPHA_ == <<"A","L","P","H","A","(">>
DIGIT_ == <<"D","I","G","I","T","(">>
NEWLINE == <<"N","E","W","L","I","N","E">>
TAB == <<"T","A","B">>
RETURN == <<"R","E","T","U","R","N">>
SPACE == <<"S","P","A","C","E">>

AlphaToken(count) == ALPHA_ \o str_int(count) \o <<")">>
DigitToken(count) == DIGIT_ \o str_int(count) \o <<")">>
QuoteToken(char) == <<"'", char, "'">>

\* a scan that never extends a run of letters
AlphaCountOne(s, at, count) == count

\* the inner while loops: the count reached from a start count
RECURSIVE AlphaCount(_, _, _)
AlphaCount(s, at, count) ==
    IF at + count <= Len(s) /\ isalpha(s[at + count])
    THEN AlphaCount(s, at, count + 1) ELSE count

RECURSIVE DigitCount(_, _, _)
DigitCount(s, at, count) ==
    IF at + count <= Len(s) /\ isdigit(s[at + count])
    THEN DigitCount(s, at, count + 1) ELSE count

\* '-'.join(tokens)
RECURSIVE join(_)
join(tokens) ==
    IF tokens = <<>> THEN <<>>
    ELSE IF Len(tokens) = 1 THEN tokens[1]
    ELSE tokens[1] \o <<"-">> \o join(Tail(tokens))

\* structure[:20]
Slice20(tokens) == SubSeq(tokens, 1, Min(Len(tokens), TruncLimit))

\* i and at are 1-based here; the code's i is sp i - 1
SpIsNa ==
    /\ sp_pc = "entry"
    /\ isna(val)
    /\ sp_pc' = "done"
    /\ sp_ret' = [kind |-> "None", str |-> <<>>]
    /\ UNCHANGED <<val, val_str, i, structure>>
    /\ UNCHANGED <<df_vars, re_vars>>

SpStr ==
    /\ sp_pc = "entry"
    /\ ~isna(val)
    /\ val_str' = val[1]
    /\ structure' = <<>>
    /\ i' = 1
    /\ sp_pc' = "scan"
    /\ UNCHANGED <<val, sp_ret>>
    /\ UNCHANGED <<df_vars, re_vars>>

SpAlpha ==
    /\ sp_pc = "scan" /\ i <= Len(val_str)
    /\ isalpha(val_str[i])
    /\ LET count == AlphaCount(val_str, i, 1) IN
        /\ structure' = Append(structure, AlphaToken(count))
        /\ i' = i + count
    /\ UNCHANGED <<val, val_str, sp_pc, sp_ret>>
    /\ UNCHANGED <<df_vars, re_vars>>

SpDigit ==
    /\ sp_pc = "scan" /\ i <= Len(val_str)
    /\ ~isalpha(val_str[i]) /\ isdigit(val_str[i])
    /\ LET count == DigitCount(val_str, i, 1) IN
        /\ structure' = Append(structure, DigitToken(count))
        /\ i' = i + count
    /\ UNCHANGED <<val, val_str, sp_pc, sp_ret>>
    /\ UNCHANGED <<df_vars, re_vars>>

SpCtrl ==
    /\ sp_pc = "scan" /\ i <= Len(val_str)
    /\ ~isalpha(val_str[i]) /\ ~isdigit(val_str[i])
    /\ val_str[i] \in {"\n", "\t", "\r"}
    /\ structure' = Append(structure,
          IF val_str[i] = "\n" THEN NEWLINE
          ELSE IF val_str[i] = "\t" THEN TAB ELSE RETURN)
    /\ i' = i + 1
    /\ UNCHANGED <<val, val_str, sp_pc, sp_ret>>
    /\ UNCHANGED <<df_vars, re_vars>>

SpSpace ==
    /\ sp_pc = "scan" /\ i <= Len(val_str)
    /\ ~isalpha(val_str[i]) /\ ~isdigit(val_str[i])
    /\ val_str[i] \notin {"\n", "\t", "\r"}
    /\ val_str[i] = " "
    /\ structure' = Append(structure, SPACE)
    /\ i' = i + 1
    /\ UNCHANGED <<val, val_str, sp_pc, sp_ret>>
    /\ UNCHANGED <<df_vars, re_vars>>

SpOther ==
    /\ sp_pc = "scan" /\ i <= Len(val_str)
    /\ ~isalpha(val_str[i]) /\ ~isdigit(val_str[i])
    /\ val_str[i] \notin {"\n", "\t", "\r", " "}
    /\ structure' = Append(structure, QuoteToken(val_str[i]))
    /\ i' = i + 1
    /\ UNCHANGED <<val, val_str, sp_pc, sp_ret>>
    /\ UNCHANGED <<df_vars, re_vars>>

SpReturn ==
    /\ sp_pc = "scan" /\ ~(i <= Len(val_str))
    /\ sp_ret' = [kind |-> "str", str |-> join(Slice20(structure))]
    /\ sp_pc' = "done"
    /\ UNCHANGED <<val, val_str, i, structure>>
    /\ UNCHANGED <<df_vars, re_vars>>

----------------------------------------------------------------------------
(* Inputs of get_structure_pattern *)

MaxLen == 3

SpAlphabet == {"a", "Z", "7", " ", "\t", "\n", "\r", "-"}

RECURSIVE StringsUpTo(_, _)
StringsUpTo(alphabet, n) ==
    IF n = 0 THEN {<<>>}
    ELSE LET shorter == StringsUpTo(alphabet, n - 1) IN
         shorter \cup {Append(s, c) : s \in shorter, c \in alphabet}

abc123 == <<"a","b","c","1","2","3">>

\* 22 and 23 single-character runs, so that structure[:20] cuts
LongAlternating == [k \in 1..22 |-> IF k % 2 = 1 THEN "a" ELSE "1"]
LongMixed == [k \in 1..23 |-> IF k % 3 = 1 THEN "b" ELSE IF k % 3 = 2 THEN "-" ELSE "4"]

SpInputs ==
    {NA} \cup {<<s>> : s \in StringsUpTo(SpAlphabet, MaxLen)
                          \cup {abc123, LongAlternating, LongMixed}}

----------------------------------------------------------------------------
(* Exact arithmetic standing in for the float operations of the code *)

Abs(x) == IF x < 0 THEN 0 - x ELSE x

\* round(num / den) to the nearest integer, ties to even (Python's round)
RoundDiv(num, den) ==
    LET q == num \div den
        r == num % den
    IN IF 2 * r < den THEN q
       ELSE IF 2 * r > den THEN q + 1
       ELSE IF q % 2 = 0 THEN q ELSE q + 1

\* Naturals beyond 32 bits: little-endian limbs in base 10000
Base == 10000

RECURSIVE BigOf(_)
BigOf(n) == IF n = 0 THEN <<>> ELSE <<n % Base>> \o BigOf(n \div Base)

RECURSIVE BigAddC(_, _, _)
BigAddC(a, b, carry) ==
    IF a = <<>> /\ b = <<>> THEN (IF carry = 0 THEN <<>> ELSE <<carry>>)
    ELSE LET x == IF a = <<>> THEN 0 ELSE a[1]
             y == IF b = <<>> THEN 0 ELSE b[1]
             t == x + y + carry
         IN <<t % Base>> \o BigAddC(IF a = <<>> THEN <<>> ELSE Tail(a),
                                    IF b = <<>> THEN <<>> ELSE Tail(b),
                                    t \div Base)

\* a * m for a limb m < Base
RECURSIVE BigMulLimb(_, _, _)
BigMulLimb(a, m, carry) ==
    IF a = <<>> THEN BigOf(carry)
    ELSE LET t == a[1] * m + carry
         IN <<t % Base>> \o BigMulLimb(Tail(a), m, t \div Base)

RECURSIVE BigMul(_, _)
BigMul(a, b) ==
    IF a = <<>> \/ b = <<>> THEN <<>>
    ELSE LET rest == BigMul(a, Tail(b))
             low == IF b[1] = 0 THEN <<>> ELSE BigMulLimb(a, b[1], 0)
         IN BigAddC(low, IF rest = <<>> THEN <<>> ELSE <<0>> \o rest, 0)

RECURSIVE BigLess(_, _)
BigLess(a, b) ==
    IF Len(a) # Len(b) THEN Len(a) < Len(b)
    ELSE IF a = <<>> THEN FALSE
    ELSE IF a[Len(a)] # b[Len(b)] THEN a[Len(a)] < b[Len(b)]
    ELSE BigLess(SubSeq(a, 1, Len(a) - 1), SubSeq(b, 1, Len(b) - 1))

RECURSIVE BigProd(_)
BigProd(factors) ==
    IF factors = <<>> THEN <<1>>
    ELSE BigMul(BigOf(factors[1]), BigProd(Tail(factors)))

\* round(100 * sqrt(num / den)) for naturals num, den > 0 given as limbs:
\* the least r with 40000 * num < (2r + 1)^2 * den
RECURSIVE SqrtSearch(_, _, _, _)
SqrtSearch(num4, den, lo, hi) ==
    IF lo = hi THEN lo
    ELSE LET mid == (lo + hi) \div 2
         IN IF BigLess(num4, BigMul(BigOf((2 * mid + 1) * (2 * mid + 1)), den))
            THEN SqrtSearch(num4, den, lo, mid)
            ELSE SqrtSearch(num4, den, mid + 1, hi)

SqrtCap == 20000

RoundSqrt100(num, den) == SqrtSearch(BigMul(BigOf(40000), num), den, 0, SqrtCap)

\* 10^6 * log2(n), n = 1 .. 160, as the entropy routine of the statistics
\* library evaluates it
Log2Micro == <<
    0, 1000000, 1584963, 2000000, 2321928, 2584963, 2807355, 3000000,
    3169925, 3321928, 3459432, 3584963, 3700440, 3807355, 3906891, 4000000,
    4087463, 4169925, 4247928, 4321928, 4392317, 4459432, 4523562, 4584963,
    4643856, 4700440, 4754888, 4807355, 4857981, 4906891, 4954196, 5000000,
    5044394, 5087463, 5129283, 5169925, 5209453, 5247928, 5285402, 5321928,
    5357552, 5392317, 5426265, 5459432, 5491853, 5523562, 5554589, 5584963,
    5614710, 5643856, 5672425, 5700440, 5727920, 5754888, 5781360, 5807355,
    5832890, 5857981, 5882643, 5906891, 5930737, 5954196, 5977280, 6000000,
    6022368, 6044394, 6066089, 6087463, 6108524, 6129283, 6149747, 6169925,
    6189825, 6209453, 6228819, 6247928, 6266787, 6285402, 6303781, 6321928,
    6339850, 6357552, 6375039, 6392317, 6409391, 6426265, 6442943, 6459432,
    6475733, 6491853, 6507795, 6523562, 6539159, 6554589, 6569856, 6584963,
    6599913, 6614710, 6629357, 6643856, 6658211, 6672425, 6686501, 6700440,
    6714246, 6727920, 6741467, 6754888, 6768184, 6781360, 6794416, 6807355,
    6820179, 6832890, 6845490, 6857981, 6870365, 6882643, 6894818, 6906891,
    6918863, 6930737, 6942515, 6954196, 6965784, 6977280, 6988685, 7000000,
    7011227, 7022368, 7033423, 7044394, 7055282, 7066089, 7076816, 7087463,
    7098032, 7108524, 7118941, 7129283, 7139551, 7149747, 7159871, 7169925,
    7179909, 7189825, 7199672, 7209453, 7219169, 7228819, 7238405, 7247928,
    7257388, 7266787, 7276124, 7285402, 7294621, 7303781, 7312883, 7321928
>>

----------------------------------------------------------------------------
(* Reported values *)

None == [kind |-> "None", val |-> 0]
NaN == [kind |-> "nan", val |-> 0]
Float(x) == [kind |-> "float", val |-> x]
IntV(x) == [kind |-> "int", val |-> x]
Bool(b) == [kind |-> "bool", val |-> IF b THEN 1 ELSE 0]

----------------------------------------------------------------------------
(* pandas Series operations used by df_checker_v2 *)

dropna(series) == SelectSeq(series, LAMBDA cell : ~isna(cell))

Values(non_null) == {non_null[k][1] : k \in DOMAIN non_null}

nunique(series) == Cardinality(Values(dropna(series)))

Count(non_null, v) == Cardinality({k \in DOMAIN non_null : non_null[k][1] = v})

\* the count of the first row's value, as value_counts(sort=False) gives
TopCountFirst(non_null) == Count(non_null, non_null[1][1])

\* value_counts().iloc[0]: the largest count
TopCount(non_null) ==
    LET counts == {Count(non_null, v) : v \in Values(non_null)}
    IN CHOOSE c \in counts : \A d \in counts : d <= c

\* f[lo] + ... + f[hi]
RECURSIVE SumRange(_, _, _)
SumRange(f, lo, hi) ==
    IF lo > hi THEN 0
    ELSE IF lo = hi THEN f[lo]
    ELSE LET mid == (lo + hi) \div 2
         IN SumRange(f, lo, mid) + SumRange(f, mid + 1, hi)

\* entropy(probs, base=2) in 10^-6 bits
EntropyMicro(non_null) ==
    LET n == Len(non_null)
        logs == [k \in 1..n |-> Log2Micro[Count(non_null, non_null[k][1])]]
    IN Log2Micro[n] - RoundDiv(SumRange(logs, 1, n), n)

Sum(non_null) == SumRange([k \in DOMAIN non_null |-> non_null[k][1].n], 1, Len(non_null))

\* sum of (n*x - S)^p, the p-th central moment sum scaled by n^p
Central(non_null, p) ==
    LET n == Len(non_null)
        S == Sum(non_null)
        term == [k \in 1..n |->
                   LET a == n * non_null[k][1].n - S
                   IN IF p = 2 THEN a * a ELSE a * a * a]
    IN SumRange(term, 1, n)

\* Series.mean(), in hundredths after round(mean, 2)
Mean100(non_null) == RoundDiv(Sum(non_null) * 100, Len(non_null))

\* Series.std() (ddof = 1) after round(std, 2)
Std100(non_null) ==
    LET n == Len(non_null)
        A2 == Central(non_null, 2)
    IN IF n < 2 THEN NaN
       ELSE IF A2 = 0 THEN Float(0)
       ELSE Float(RoundSqrt100(BigOf(A2), BigProd(<<n, n, n - 1>>)))

\* Series.skew(): NaN below 3 values, 0 when the variance is 0, else
\* n*sqrt(n-1)/(n-2) * m3 / m2^1.5
SkewNum(non_null) ==
    LET n == Len(non_null)
        A3 == Abs(Central(non_null, 3))
    IN BigMul(BigProd(<<n, n, n - 1>>), BigMul(BigOf(A3), BigOf(A3)))

SkewDen(non_null) ==
    LET n == Len(non_null)
        A2 == BigOf(Central(non_null, 2))
    IN BigMul(BigProd(<<n - 2, n - 2>>), BigMul(A2, BigMul(A2, A2)))

Skew100(non_null) ==
    LET n == Len(non_null)
        A2 == Central(non_null, 2)
        A3 == Central(non_null, 3)
    IN IF n < 3 THEN NaN
       ELSE IF A2 = 0 \/ A3 = 0 THEN Float(0)
       ELSE LET r == RoundSqrt100(SkewNum(non_null), SkewDen(non_null))
            IN Float(IF A3 < 0 THEN 0 - r ELSE r)

\* abs(skewness) > 2
HighlySkewed(non_null) ==
    LET n == Len(non_null)
    IN /\ n >= 3
       /\ Central(non_null, 2) # 0
       /\ BigLess(BigMul(BigOf(4), SkewDen(non_null)), SkewNum(non_null))

MinVal(non_null) ==
    (CHOOSE v \in Values(non_null) : \A w \in Values(non_null) : v.n <= w.n).n
MaxVal(non_null) ==
    (CHOOSE v \in Values(non_null) : \A w \in Values(non_null) : w.n <= v.n).n

\* the k-th smallest value, k = 1 .. n
KthSmallest(non_null, k) ==
    (CHOOSE v \in Values(non_null) :
        /\ Cardinality({j \in DOMAIN non_null : non_null[j][1].n < v.n}) < k
        /\ k <= Cardinality({j \in DOMAIN non_null : non_null[j][1].n <= v.n})).n

\* 4 * Series.quantile(q4 / 4), linear interpolation
Quantile4(non_null, q4) ==
    LET n == Len(non_null)
        h == q4 * (n - 1)
        lo == KthSmallest(non_null, (h \div 4) + 1)
        hi == KthSmallest(non_null, Min((h \div 4) + 2, n))
    IN 4 * lo + (h % 4) * (hi - lo)

\* number of values below q1 - 1.5*iqr or above q3 + 1.5*iqr
Outliers(non_null) ==
    LET q1 == Quantile4(non_null, 1)
        q3 == Quantile4(non_null, 3)
        iqr == q3 - q1
    IN Cardinality({k \in DOMAIN non_null :
           \/ 8 * non_null[k][1].n < 2 * q1 - 3 * iqr
           \/ 8 * non_null[k][1].n > 2 * q3 + 3 * iqr})

\* str.match(r'^-?\d+(\.\d+)?$')
RECURSIVE DigitRun(_, _)
DigitRun(s, at) == IF at <= Len(s) /\ isdigit(s[at]) THEN DigitRun(s, at + 1) ELSE at

AtEnd(s, at) == at = Len(s) + 1 \/ (at = Len(s) /\ s[at] = "\n")

NumericLike(s) ==
    LET start == IF Len(s) >= 1 /\ s[1] = "-" THEN 2 ELSE 1
        afterInt == DigitRun(s, start)
    IN /\ afterInt > start
       /\ \/ AtEnd(s, afterInt)
          \/ /\ afterInt <= Len(s) /\ s[afterInt] = "."
             /\ DigitRun(s, afterInt + 1) > afterInt + 1
             /\ AtEnd(s, DigitRun(s, afterInt + 1))

NumericLikeCount(non_null) ==
    Cardinality({k \in DOMAIN non_null : NumericLike(non_null[k][1].s)})

----------------------------------------------------------------------------
(* Column-name analysis, lines 276-324 *)

LowerSeq == <<"a","b","c","d","e","f","g","h","i","j","k","l","m",
              "n","o","p","q","r","s","t","u","v","w","x","y","z">>
UpperSeq == <<"A","B","C","D","E","F","G","H","I","J","K","L","M",
              "N","O","P","Q","R","S","T","U","V","W","X","Y","Z">>

\* str.isupper / str.islower: at least one cased character and no cased
\* character of the other case
isupper(s) == (\E k \in DOMAIN s : s[k] \in Upper) /\ ~(\E k \in DOMAIN s : s[k] \in Lower)
islower(s) == (\E k \in DOMAIN s : s[k] \in Lower) /\ ~(\E k \in DOMAIN s : s[k] \in Upper)

lower_char(c) ==
    IF c \in Upper THEN LowerSeq[CHOOSE k \in 1..26 : UpperSeq[k] = c] ELSE c

lower(s) == [k \in DOMAIN s |-> lower_char(s[k])]

\* k in lowered
Contains(hay, needle) ==
    \E at \in 0..(Len(hay) - Len(needle)) :
        SubSeq(hay, at + 1, at + Len(needle)) = needle

ContainsAny(hay, needles) == \E n \in needles : Contains(hay, n)

replace(s, old, new) == [k \in DOMAIN s |-> IF s[k] = old THEN new ELSE s[k]]

\* str.split(sep) for a one-character separator
RECURSIVE split(_, _)
split(s, sep) ==
    IF \A k \in DOMAIN s : s[k] # sep THEN <<s>>
    ELSE LET at == CHOOSE k \in DOMAIN s :
                       s[k] = sep /\ \A j \in 1..(k - 1) : s[j] # sep
         IN <<SubSeq(s, 1, at - 1)>> \o split(SubSeq(s, at + 1, Len(s)), sep)

TokenCount(name) ==
    LET tokens == split(replace(replace(name, "-", "_"), " ", "_"), "_")
    IN Len(SelectSeq(tokens, LAMBDA t : t # <<>>))

UPPERCASE == <<"U","P","P","E","R","C","A","S","E">>
lowercase == <<"l","o","w","e","r","c","a","s","e">>
snake_case == <<"s","n","a","k","e","_","c","a","s","e">>
PascalCase == <<"P","a","s","c","a","l","C","a","s","e">>
camelCase == <<"c","a","m","e","l","C","a","s","e">>
mixed == <<"m","i","x","e","d">>

\* The if/elif chain of lines 293-304
CaseType(name) ==
    IF isupper(name) THEN UPPERCASE
    ELSE IF islower(name) THEN lowercase
    ELSE IF \E k \in DOMAIN name : name[k] = "_" THEN snake_case
    ELSE IF isupper(SubSeq(name, 1, Min(1, Len(name))))
            /\ ~(\E k \in DOMAIN name : name[k] = "_") THEN PascalCase
    ELSE IF \E k \in 2..Len(name) : isupper(<<name[k]>>) THEN camelCase
    ELSE mixed

IdKeywords == {<<"i","d">>, <<"u","u","i","d">>, <<"k","e","y">>, <<"r","e","f">>}
DatetimeKeywords == {<<"d","a","t","e">>, <<"t","i","m","e">>, <<"t","i","m","e","s","t","a","m","p">>}
AmountKeywords == {<<"a","m","o","u","n","t">>, <<"p","r","i","c","e">>, <<"c","o","s","t">>, <<"r","e","v","e","n","u","e">>, <<"s","a","l","a","r","y">>}
CountKeywords == {<<"c","o","u","n","t">>, <<"n","u","m">>, <<"q","t","y">>, <<"q","u","a","n","t","i","t","y">>}
RatioKeywords == {<<"r","a","t","e">>, <<"p","c","t">>, <<"p","e","r","c","e","n","t">>, <<"r","a","t","i","o">>}

NameProfile(name) ==
    LET lowered == lower(name) IN
    [length |-> Len(name),
     token_count |-> TokenCount(name),
     contains_digit |-> \E k \in DOMAIN name : isdigit(name[k]),
     contains_special_char |-> \E k \in DOMAIN name : ~isalnum(name[k]) /\ name[k] # "_",
     case_pattern |-> CaseType(name),
     likely_id_column |-> ContainsAny(lowered, IdKeywords),
     likely_datetime_column |-> ContainsAny(lowered, DatetimeKeywords),
     likely_amount_column |-> ContainsAny(lowered, AmountKeywords),
     likely_count_column |-> ContainsAny(lowered, CountKeywords),
     likely_ratio_column |-> ContainsAny(lowered, RatioKeywords)]

\* str(col) of a column label
str(label) == label.s

----------------------------------------------------------------------------
(* Per-column metrics, lines 140-264 *)

EntropyUpper == 10000
OutlierMinN == 20

\* entropy_score, lines 164-170: None unless 1 < nunique < 10000
EntropyScore(series) ==
    IF 1 < nunique(series) /\ nunique(series) < EntropyUpper
    THEN Float(EntropyMicro(dropna(series)))
    ELSE None

\* round(entropy_score, 2) if entropy_score else None
EntropyField(entropy_score) ==
    IF entropy_score.kind # "None" /\ entropy_score.val # 0
    THEN Float(RoundDiv(entropy_score.val * 100, 1000000))
    ELSE None

\* the dominant share taken over all rows, missing ones included
NearZeroVarianceOfRows(series) ==
    /\ nunique(series) > 0
    /\ TopCount(dropna(series)) * 100 > 95 * Len(series)

\* dominant_pct > 95, lines 179-181
NearZeroVariance(series) ==
    /\ nunique(series) > 0
    /\ TopCount(dropna(series)) * 100 > 95 * Len(dropna(series))

\* round(dominant_pct, 1) if dominant_pct else None, in tenths of a percent
DominantField(series) ==
    IF nunique(series) > 0 /\ TopCount(dropna(series)) # 0
    THEN Float(RoundDiv(TopCount(dropna(series)) * 1000, Len(dropna(series))))
    ELSE None

\* outlier_pct rounded without the truthiness test
OutlierFieldUnguarded(non_null, total_rows) ==
    IF Len(non_null) > OutlierMinN
    THEN Float(RoundDiv(Outliers(non_null) * 10000, total_rows))
    ELSE None

\* round(outlier_pct, 2) if outlier_pct else None, lines 211-221 and 230
OutlierField(non_null, total_rows) ==
    IF Len(non_null) > OutlierMinN /\ Outliers(non_null) # 0
    THEN Float(RoundDiv(Outliers(non_null) * 10000, total_rows))
    ELSE None

NumericFields(non_null, total_rows) ==
    [mean |-> Float(Mean100(non_null)),
     std |-> Std100(non_null),
     min |-> Float(MinVal(non_null)),
     max |-> Float(MaxVal(non_null)),
     skewness |-> Skew100(non_null),
     highly_skewed |-> Bool(HighlySkewed(non_null)),
     outlier_pct |-> OutlierField(non_null, total_rows)]

\* 0.2 < numeric_like_ratio < 0.8
MixedType(non_null) ==
    /\ 5 * NumericLikeCount(non_null) > Len(non_null)
    /\ 5 * NumericLikeCount(non_null) < 4 * Len(non_null)

CategoricalFields(non_null) ==
    [numeric_like_ratio |-> Float(RoundDiv(NumericLikeCount(non_null) * 1000, Len(non_null))),
     mixed_type_suspected |-> Bool(MixedType(non_null))]

\* the flag taken from the rounded unique_ratio of the record
LikelyIdentifierRounded(nu, total_rows, entropy_score) ==
    /\ RoundDiv(nu * 1000, total_rows) > 950
    /\ entropy_score.kind # "None"
    /\ entropy_score.val > 4 * 1000000

\* lines 258-262, on the unrounded ratio and the unrounded entropy_score
LikelyIdentifier(nu, total_rows, entropy_score) ==
    /\ 100 * nu > 95 * total_rows
    /\ entropy_score.kind # "None"
    /\ entropy_score.val > 4 * 1000000

\* the dict built at lines 187-264 for one column of at least one row
Profile(series, label, numerics, cats) ==
    LET non_null == dropna(series)
        total_rows == Len(series)
        nu == nunique(series)
        entropy_score == EntropyScore(series)
        base == [unique_count |-> IntV(nu),
                 unique_ratio |-> Float(RoundDiv(nu * 1000, total_rows)),
                 entropy |-> EntropyField(entropy_score),
                 dominant_value_pct |-> DominantField(series),
                 near_zero_variance |-> Bool(NearZeroVariance(series))]
        withNumeric == IF label \in numerics /\ Len(non_null) > 0
                       THEN NumericFields(non_null, total_rows) @@ base
                       ELSE base
        withCategorical == IF label \in cats /\ Len(non_null) > 0
                           THEN CategoricalFields(non_null) @@ withNumeric
                           ELSE withNumeric
    IN [likely_identifier |->
            Bool(LikelyIdentifier(nu, total_rows, entropy_score))] @@ withCategorical

----------------------------------------------------------------------------
(* df_checker_v2, lines 87-332 *)

Range(seq) == {seq[k] : k \in DOMAIN seq}

NumberDtypes == {"int64", "float64"}
ObjectDtypes == {"object"}

Labels(df) == [k \in DOMAIN df.columns |-> df.columns[k].label]

\* data.select_dtypes(include=...).columns.tolist()
select_dtypes(df, include) ==
    Labels([df EXCEPT !.columns = SelectSeq(df.columns, LAMBDA c : c.dtype \in include)])

\* data.dtypes.value_counts().to_dict()
DtypeCounts(df) ==
    [d \in {df.columns[k].dtype : k \in DOMAIN df.columns} |->
        Cardinality({k \in DOMAIN df.columns : df.columns[k].dtype = d})]

Missing(series) == Cardinality({k \in DOMAIN series : isna(series[k])})

\* the percentages of present, not of missing, cells
HighMissingOfPresent(df) ==
    [l \in {df.columns[k].label : k \in {j \in DOMAIN df.columns :
                 /\ df.rows > 0
                 /\ (df.rows - Missing(df.columns[j].series)) * 100 > 10 * df.rows}} |->
        LET c == CHOOSE c \in Range(df.columns) : c.label = l
        IN Float(RoundDiv((df.rows - Missing(c.series)) * 10000, df.rows))]

\* per_null[per_null > 10].round(2).to_dict(); the mean of no rows is NaN
HighMissing(df) ==
    [l \in {df.columns[k].label : k \in {j \in DOMAIN df.columns :
                 /\ df.rows > 0
                 /\ Missing(df.columns[j].series) * 100 > 10 * df.rows}} |->
        LET c == CHOOSE c \in Range(df.columns) : c.label = l
        IN Float(RoundDiv(Missing(c.series) * 10000, df.rows))]

EmptyDict == [x \in {} |-> 0]

privacy_note == "All metrics derived from structural and schema-level properties only."

\* lines 108-136
Prologue ==
    /\ pc = "entry"
    /\ shape' = <<data.rows, Len(data.columns)>>
    /\ dtype_counts' = DtypeCounts(data)
    /\ numeric_cols' = select_dtypes(data, NumberDtypes)
    /\ cat_cols' = select_dtypes(data, ObjectDtypes)
    /\ cols_high_missing' = HighMissing(data)
    /\ column_profiles' = EmptyDict
    /\ outer_i' = 1
    /\ pc' = "outer"
    /\ UNCHANGED <<data, inner_i, col, column_name_profiles,
                   column_name_profiles_bound, report, sp_vars, re_vars>>

\* lines 138-148: total_rows == 0, continue
SkipColumn ==
    /\ pc = "outer" /\ outer_i <= Len(data.columns)
    /\ Len(data.columns[outer_i].series) = 0
    /\ col' = data.columns[outer_i].label
    /\ outer_i' = outer_i + 1
    /\ UNCHANGED <<data, pc, shape, dtype_counts, numeric_cols, cat_cols,
                   cols_high_missing, inner_i, column_profiles,
                   column_name_profiles, column_name_profiles_bound, report,
                   sp_vars, re_vars>>

\* lines 138-272: one column's metrics, then column_name_profiles = {}
ProfileColumn ==
    /\ pc = "outer" /\ outer_i <= Len(data.columns)
    /\ Len(data.columns[outer_i].series) # 0
    /\ LET c == data.columns[outer_i] IN
        /\ col' = c.label
        /\ column_profiles' =
              (c.label :> Profile(c.series, c.label, Range(numeric_cols), Range(cat_cols)))
                  @@ column_profiles
    /\ column_name_profiles' = EmptyDict
    /\ column_name_profiles_bound' = TRUE
    /\ inner_i' = 1
    /\ pc' = "inner"
    /\ UNCHANGED <<data, shape, dtype_counts, numeric_cols, cat_cols,
                   cols_high_missing, outer_i, report, sp_vars, re_vars>>

\* lines 274-324: one iteration of the nested loop, which rebinds col
NameColumn ==
    /\ pc = "inner" /\ inner_i <= Len(data.columns)
    /\ col' = data.columns[inner_i].label
    /\ LET name == str(data.columns[inner_i].label) IN
          column_name_profiles' = (name :> NameProfile(name)) @@ column_name_profiles
    /\ inner_i' = inner_i + 1
    /\ UNCHANGED <<data, pc, shape, dtype_counts, numeric_cols, cat_cols,
                   cols_high_missing, outer_i, column_profiles,
                   column_name_profiles_bound, report, sp_vars, re_vars>>

\* line 274 exhausted: back to the next column of the outer loop
InnerExhausted ==
    /\ pc = "inner" /\ inner_i > Len(data.columns)
    /\ outer_i' = outer_i + 1
    /\ pc' = "outer"
    /\ UNCHANGED <<data, shape, dtype_counts, numeric_cols, cat_cols,
                   cols_high_missing, inner_i, col, column_profiles,
                   column_name_profiles, column_name_profiles_bound, report,
                   sp_vars, re_vars>>

\* lines 325-332
Return ==
    /\ pc = "outer" /\ outer_i > Len(data.columns)
    /\ column_name_profiles_bound
    /\ report' = [shape |-> shape,
                  dtype_counts |-> dtype_counts,
                  high_missing_columns_pct |-> cols_high_missing,
                  column_profiles |-> column_profiles,
                  column_name_profiles |-> column_name_profiles,
                  privacy_note |-> privacy_note]
    /\ pc' = "done"
    /\ UNCHANGED <<data, shape, dtype_counts, numeric_cols, cat_cols,
                   cols_high_missing, outer_i, inner_i, col, column_profiles,
                   column_name_profiles, column_name_profiles_bound,
                   sp_vars, re_vars>>

\* line 330 reads column_name_profiles, which no statement has bound
RaiseUnbound ==
    /\ pc = "outer" /\ outer_i > Len(data.columns)
    /\ ~column_name_profiles_bound
    /\ report' = [exception |-> "UnboundLocalError"]
    /\ pc' = "raised"
    /\ UNCHANGED <<data, shape, dtype_counts, numeric_cols, cat_cols,
                   cols_high_missing, outer_i, inner_i, col, column_profiles,
                   column_name_profiles, column_name_profiles_bound,
                   sp_vars, re_vars>>

----------------------------------------------------------------------------
(* Datasets *)

MaxRows == 3
MaxCols == 2
MaxRowsMulti == 2

StrLabel(s) == [kind |-> "str", s |-> s]
IntLabel(s) == [kind |-> "int", s |-> s]

user_id == <<"u","s","e","r","_","i","d">>
TotalRevenue == <<"T","o","t","a","l","R","e","v","e","n","u","e">>
unitPrice == <<"u","n","i","t","P","r","i","c","e">>
AMOUNT == <<"A","M","O","U","N","T">>
User_Ref == <<"U","s","e","r","_","R","e","f">>

\* column labels: strings, and the integer 1 beside the string "1"
AllLabels == {StrLabel(user_id), StrLabel(TotalRevenue), StrLabel(unitPrice),
              StrLabel(AMOUNT), StrLabel(User_Ref), StrLabel(<<"1">>), IntLabel(<<"1">>)}

\* the labels of a dataset of several columns, in column order
LabelOrders ==
    {<<StrLabel(user_id), StrLabel(TotalRevenue), StrLabel(AMOUNT), StrLabel(unitPrice)>>,
     <<IntLabel(<<"1">>), StrLabel(<<"1">>), StrLabel(User_Ref), StrLabel(user_id)>>}

Dtypes == {"int64", "float64", "object", "bool"}

\* int64 and bool columns hold no missing value
Cells(dtype) ==
    CASE dtype = "int64" -> {<<Num(0)>>, <<Num(1)>>, <<Num(4)>>}
      [] dtype = "float64" -> {NA, <<Num(0)>>, <<Num(1)>>, <<Num(4)>>}
      [] dtype = "object" -> {NA, <<Str(<<"a">>)>>, <<Str(<<"1","2">>)>>}
      [] dtype = "bool" -> {<<Num(1)>>, <<Num(0)>>}

CellsMulti(dtype) ==
    CASE dtype = "int64" -> {<<Num(1)>>}
      [] dtype = "float64" -> {NA, <<Num(4)>>}
      [] dtype = "object" -> {NA, <<Str(<<"a">>)>>}
      [] dtype = "bool" -> {<<Num(1)>>}

Column(label, dtype, series) == [label |-> label, dtype |-> dtype, series |-> series]

Frame(rows, columns) == [rows |-> rows, columns |-> columns]

NoColumns(maxRows) == {Frame(r, <<>>) : r \in 0..maxRows}

OneColumn(maxRows, labels) ==
    UNION {{Frame(r, <<Column(l, d, ser)>>) : ser \in [1..r -> Cells(d)]} :
             r \in 0..maxRows, l \in labels, d \in Dtypes}

\* a dtype with a series of r cells of that dtype
TypedSeries(r) ==
    UNION {{[dtype |-> d, series |-> ser] : ser \in [1..r -> CellsMulti(d)]} : d \in Dtypes}

ManyColumns(maxRows, maxCols, orders) ==
    UNION {{Frame(r, [k \in 1..n |-> Column(ls[k], cs[k].dtype, cs[k].series)]) :
               ls \in orders, cs \in [1..n -> TypedSeries(r)]} :
             r \in 0..maxRows, n \in 2..maxCols}

\* Longer single columns: k distinct values, each rep times, then extra
\* further copies of the first value, then missing cells
GenDistinct == {1, 2, 3, 16, 17, 20, 96}
GenRep == {1, 11}
GenExtra == {0, 5, 25, 98}
GenMissing == {0, 3}
GenMaxRows == 135
GenMaxNumber == 3

GenValue(dtype, k) == IF dtype = "object" THEN Str(<<"v">> \o str_int(k)) ELSE Num(k)

GenSeries(dtype, k, rep, extra, missing) ==
    [j \in 1..(k * rep + extra + missing) |->
        IF j <= k * rep THEN <<GenValue(dtype, ((j - 1) % k) + 1)>>
        ELSE IF j <= k * rep + extra THEN <<GenValue(dtype, 1)>>
        ELSE NA]

Generated(maxRows) ==
    {Frame(k * rep + extra + missing,
           <<Column(StrLabel(user_id), d, GenSeries(d, k, rep, extra, missing))>>) :
        <<d, k, rep, extra, missing>> \in
            {t \in {"int64", "float64", "object"} \X GenDistinct \X GenRep \X GenExtra \X GenMissing :
                /\ t[2] * t[3] + t[4] + t[5] <= maxRows
                /\ t[1] = "int64" => t[5] = 0
                /\ t[1] # "object" => t[2] <= GenMaxNumber}}

Datasets(maxCols) ==
    NoColumns(MaxRows) \cup OneColumn(MaxRows, AllLabels)
        \cup ManyColumns(MaxRowsMulti, maxCols, LabelOrders) \cup Generated(GenMaxRows)

----------------------------------------------------------------------------
(* Specifications *)

SpIdle ==
    /\ val = NA /\ val_str = <<>> /\ i = 0 /\ structure = <<>>
    /\ sp_pc = "idle" /\ sp_ret = [kind |-> "None", str |-> <<>>]

DfLocals ==
    /\ pc = "entry"
    /\ shape = <<0, 0>>
    /\ dtype_counts = EmptyDict
    /\ numeric_cols = <<>> /\ cat_cols = <<>>
    /\ cols_high_missing = EmptyDict
    /\ outer_i = 0 /\ inner_i = 0
    /\ col = StrLabel(<<>>)
    /\ column_profiles = EmptyDict
    /\ column_name_profiles = EmptyDict
    /\ column_name_profiles_bound = FALSE
    /\ report = [exception |-> ""]

ReIdle == first_data = Frame(0, <<>>) /\ first_report = [exception |-> ""] /\ calls = 0

DfIdle == data = Frame(0, <<>>) /\ DfLocals /\ ReIdle

SpInit ==
    /\ val \in SpInputs
    /\ val_str = <<>> /\ i = 0 /\ structure = <<>>
    /\ sp_pc = "entry" /\ sp_ret = [kind |-> "None", str |-> <<>>]
    /\ DfIdle

SpNext == SpIsNa \/ SpStr \/ SpAlpha \/ SpDigit \/ SpCtrl \/ SpSpace \/ SpOther \/ SpReturn

SpecPattern == SpInit /\ [][SpNext]_vars

Init ==
    /\ data \in Datasets(MaxCols)
    /\ DfLocals
    /\ ReIdle
    /\ SpIdle

Next ==
    \/ Prologue
    \/ SkipColumn
    \/ ProfileColumn
    \/ NameColumn
    \/ InnerExhausted
    \/ Return
    \/ RaiseUnbound

Spec == Init /\ [][Next]_vars

----------------------------------------------------------------------------
(* Calling df_checker_v2 again, on the same rows or on reordered rows *)

MaxCalls == 2
ReorderMaxRows == 28
ReorderMaxCols == 1

Reverse(seq) == [k \in DOMAIN seq |-> seq[Len(seq) + 1 - k]]
Rotate(seq) == [k \in DOMAIN seq |-> seq[(k % Len(seq)) + 1]]

\* the same reordering of the rows applied to every column
ReverseFrame(df) ==
    [df EXCEPT !.columns = [k \in DOMAIN df.columns |->
        [df.columns[k] EXCEPT !.series = Reverse(df.columns[k].series)]]]
RotateFrame(df) ==
    [df EXCEPT !.columns = [k \in DOMAIN df.columns |->
        [df.columns[k] EXCEPT !.series = Rotate(df.columns[k].series)]]]

\* a finished call is followed by a fresh call on df
CallOn(df) ==
    /\ pc \in {"done", "raised"}
    /\ calls < MaxCalls
    /\ first_data' = IF calls = 0 THEN data ELSE first_data
    /\ first_report' = IF calls = 0 THEN report ELSE first_report
    /\ calls' = calls + 1
    /\ data' = df
    /\ pc' = "entry"
    /\ shape' = <<0, 0>>
    /\ dtype_counts' = EmptyDict
    /\ numeric_cols' = <<>> /\ cat_cols' = <<>>
    /\ cols_high_missing' = EmptyDict
    /\ outer_i' = 0 /\ inner_i' = 0
    /\ col' = StrLabel(<<>>)
    /\ column_profiles' = EmptyDict
    /\ column_name_profiles' = EmptyDict
    /\ column_name_profiles_bound' = FALSE
    /\ report' = [exception |-> ""]
    /\ UNCHANGED sp_vars

CallAgain == CallOn(data)
CallReversed == CallOn(ReverseFrame(data))
CallRotated == CallOn(RotateFrame(data))

\* the labels play no part in the order of the rows: one label per column
ReorderDatasets(maxRows, maxCols) ==
    NoColumns(MaxRows) \cup OneColumn(MaxRows, {StrLabel(user_id)})
        \cup ManyColumns(MaxRowsMulti, maxCols,
                         {<<StrLabel(user_id), StrLabel(TotalRevenue),
                            StrLabel(AMOUNT), StrLabel(unitPrice)>>})
        \cup Generated(maxRows)

ReorderInit ==
    /\ data \in ReorderDatasets(ReorderMaxRows, ReorderMaxCols)
    /\ DfLocals
    /\ ReIdle
    /\ SpIdle

ReorderNext == Next \/ CallAgain \/ CallReversed \/ CallRotated

SpecReorder == ReorderInit /\ [][ReorderNext]_vars

----------------------------------------------------------------------------
(* Properties *)

ColumnOf(k) == data.columns[k]
ProfileOf(k) == report.column_profiles[data.columns[k].label]
Present(k) == {j \in DOMAIN data.columns[k].series : ~isna(data.columns[k].series[j])}
Same(k, j) == {h \in Present(k) : data.columns[k].series[h] = data.columns[k].series[j]}
AllMissing(k) == Present(k) = {}
IsNumeric(k) == data.columns[k].dtype \in NumberDtypes

\* C1: the name "user_id" is profiled as snake_case with likely_id_column,
\* the name "TotalRevenue" as PascalCase with likely_amount_column.
C1_NameClassification ==
    pc = "done" =>
        /\ user_id \in DOMAIN report.column_name_profiles =>
              /\ report.column_name_profiles[user_id].case_pattern = snake_case
              /\ report.column_name_profiles[user_id].likely_id_column
        /\ TotalRevenue \in DOMAIN report.column_name_profiles =>
              /\ report.column_name_profiles[TotalRevenue].case_pattern = PascalCase
              /\ report.column_name_profiles[TotalRevenue].likely_amount_column

\* C2 as stated: with at least one row, an all-missing column is listed in
\* high_missing_columns_pct at 100 and has no entry in column_profiles.
C2_AllMissingAbsent ==
    (pc = "done" /\ data.rows >= 1) =>
        \A k \in DOMAIN data.columns : AllMissing(k) =>
            /\ ColumnOf(k).label \in DOMAIN report.high_missing_columns_pct
            /\ report.high_missing_columns_pct[ColumnOf(k).label] = Float(10000)
            /\ ColumnOf(k).label \notin DOMAIN report.column_profiles

\* C2 amended: with at least one row, an all-missing column is listed in
\* high_missing_columns_pct at 100 and has an entry in column_profiles, which
\* holds unique_count 0, unique_ratio 0, no entropy, no dominant_value_pct,
\* near_zero_variance false, likely_identifier false and nothing else.
C2_AllMissingProfiled ==
    (pc = "done" /\ data.rows >= 1) =>
        \A k \in DOMAIN data.columns : AllMissing(k) =>
            /\ ColumnOf(k).label \in DOMAIN report.high_missing_columns_pct
            /\ report.high_missing_columns_pct[ColumnOf(k).label] = Float(10000)
            /\ ColumnOf(k).label \in DOMAIN report.column_profiles
            /\ ProfileOf(k) = [unique_count |-> IntV(0),
                               unique_ratio |-> Float(0),
                               entropy |-> None,
                               dominant_value_pct |-> None,
                               near_zero_variance |-> Bool(FALSE),
                               likely_identifier |-> Bool(FALSE)]

C2_Witness ==
    /\ pc = "done" /\ data.rows >= 1
    /\ \E k \in DOMAIN data.columns :
          AllMissing(k) /\ ColumnOf(k).label \in DOMAIN report.column_profiles

\* C3: on zero rows and at least one column the call returns a report with
\* the column count in shape, no column_profiles and a name profile for
\* every column.
C3_ZeroRowsReturns ==
    (pc \in {"done", "raised"} /\ data.rows = 0 /\ Len(data.columns) >= 1) =>
        /\ pc = "done"
        /\ report.shape = <<0, Len(data.columns)>>
        /\ DOMAIN report.column_profiles = {}
        /\ \A k \in DOMAIN data.columns :
              str(ColumnOf(k).label) \in DOMAIN report.column_name_profiles

\* C4: no field of a returned metrics record is a cell of the column; min
\* and max in particular are not values found in the column.
C4_NoRawCell ==
    pc = "done" =>
        \A k \in DOMAIN data.columns : \A f \in {"min", "max"} :
            f \in DOMAIN ProfileOf(k) =>
                \A j \in Present(k) : ProfileOf(k)[f].val # ColumnOf(k).series[j][1].n

\* C5: for a non-missing value the scan emits one ALPHA(n) per maximal run
\* of letters, one DIGI<<"n">> per maximal run of digits, n the run length,
\* and one token per other character; no two adjacent tokens are both
\* ALPHA or both DIGIT; "abc123" gives ALPHA(3), DIGI<<"3">>.
C5_StructureTokens ==
    (sp_pc = "done" /\ ~isna(val)) =>
        LET s == val[1]
            class(c) == IF isalpha(c) THEN "alpha"
                        ELSE IF isdigit(c) THEN "digit" ELSE "other"
            starts == {p \in 1..Len(s) :
                          \/ p = 1
                          \/ class(s[p]) = "other"
                          \/ class(s[p - 1]) # class(s[p])}
            nth(k) == CHOOSE p \in starts : Cardinality({q \in starts : q < p}) = k - 1
            runlen(k) == (IF k = Cardinality(starts) THEN Len(s) + 1 ELSE nth(k + 1)) - nth(k)
            expected(k) ==
                LET c == s[nth(k)] IN
                IF class(c) = "alpha" THEN ALPHA_ \o str_int(runlen(k)) \o <<")">>
                ELSE IF class(c) = "digit" THEN DIGIT_ \o str_int(runlen(k)) \o <<")">>
                ELSE IF c = "\n" THEN NEWLINE
                ELSE IF c = "\t" THEN TAB
                ELSE IF c = "\r" THEN RETURN
                ELSE IF c = " " THEN SPACE
                ELSE <<"'", c, "'">>
            isAlpha(t) == Len(t) >= 6 /\ SubSeq(t, 1, 6) = ALPHA_
            isDigit(t) == Len(t) >= 6 /\ SubSeq(t, 1, 6) = DIGIT_
        IN /\ Len(structure) = Cardinality(starts)
           /\ \A k \in 1..Len(structure) : structure[k] = expected(k)
           /\ \A k \in 1..(Len(structure) - 1) :
                 /\ ~(isAlpha(structure[k]) /\ isAlpha(structure[k + 1]))
                 /\ ~(isDigit(structure[k]) /\ isDigit(structure[k + 1]))
           /\ s = abc123 =>
                 /\ structure = <<<<"A","L","P","H","A">> \o <<"(","3",")">>, <<"D","I","G","I","T">> \o <<"(","3",")">>>>
                 /\ sp_ret.str = <<"A","L","P","H","A">> \o <<"(","3",")","-">> \o <<"D","I","G","I","T">> \o <<"(","3",")">>

C5_Witness ==
    /\ sp_pc = "done" /\ val = <<abc123>>
    /\ Len(structure) = 2 /\ sp_ret.kind = "str"

\* C6 as stated: likely_identifier is true iff the record's rounded
\* unique_ratio exceeds 0.95, entropy was computed and the entropy exceeds 4.
C6_IdentifierFromRecord ==
    pc = "done" =>
        \A k \in DOMAIN data.columns :
            ProfileOf(k).likely_identifier =
                Bool(/\ ProfileOf(k).unique_ratio.val > 950
                     /\ 1 < ProfileOf(k).unique_count.val
                     /\ ProfileOf(k).unique_count.val < EntropyUpper
                     /\ EntropyMicro(dropna(ColumnOf(k).series)) > 4000000)

\* C6 amended: likely_identifier is true iff unique_count / total_rows
\* before rounding exceeds 0.95, entropy was computed (1 < unique_count <
\* 10000) and the entropy before rounding exceeds 4; two distinct values at
\* 50% each give entropy 1.00 and likely_identifier false.
C6_IdentifierUnrounded ==
    pc = "done" =>
        \A k \in DOMAIN data.columns :
            /\ ProfileOf(k).likely_identifier =
                  Bool(/\ 100 * ProfileOf(k).unique_count.val > 95 * report.shape[1]
                       /\ 1 < ProfileOf(k).unique_count.val
                       /\ ProfileOf(k).unique_count.val < EntropyUpper
                       /\ EntropyMicro(dropna(ColumnOf(k).series)) > 4000000)
            /\ (/\ ProfileOf(k).unique_count.val = 2
                /\ \E j \in Present(k) : 2 * Cardinality(Same(k, j)) = Cardinality(Present(k)))
                  => /\ ProfileOf(k).entropy = Float(100)
                     /\ ProfileOf(k).likely_identifier = Bool(FALSE)

C6_Witness ==
    /\ pc = "done"
    /\ \E k \in DOMAIN data.columns :
          /\ ProfileOf(k).likely_identifier = Bool(TRUE)
          /\ ProfileOf(k).unique_ratio.val = 950

\* C7 as stated: in the record of a numeric column with a non-missing
\* value, mean, std, skewness and outlier_pct are never reported as zero.
C7_NoZeroReported ==
    pc = "done" =>
        \A k \in DOMAIN data.columns : (IsNumeric(k) /\ ~AllMissing(k)) =>
            \A f \in {"mean", "std", "skewness", "outlier_pct"} :
                ~(ProfileOf(k)[f].kind = "float" /\ ProfileOf(k)[f].val = 0)

\* C7 amended: in the record of a numeric column with a non-missing value,
\* only outlier_pct is reported as absent for zero: it is None exactly when
\* there are at most 20 non-missing values or none of them is an outlier,
\* and the rounded percentage otherwise.  mean, std and skewness are always
\* reported as numbers, never None: a zero mean is 0.0, and std and skewness
\* of three or more equal values are 0.0.
C7_OnlyOutlierGuarded ==
    pc = "done" =>
        \A k \in DOMAIN data.columns : (IsNumeric(k) /\ ~AllMissing(k)) =>
            LET non_null == dropna(ColumnOf(k).series)
                prof == ProfileOf(k)
            IN /\ prof.mean.kind = "float"
               /\ prof.std.kind \in {"float", "nan"}
               /\ prof.skewness.kind \in {"float", "nan"}
               /\ prof.std.kind = "nan" <=> Len(non_null) = 1
               /\ prof.skewness.kind = "nan" <=> Len(non_null) < 3
               /\ (\A j \in Present(k) : ColumnOf(k).series[j][1].n = 0) => prof.mean = Float(0)
               /\ (Len(non_null) >= 3 /\ \A j \in Present(k) : Same(k, j) = Present(k)) =>
                     prof.std = Float(0) /\ prof.skewness = Float(0)
               /\ prof.outlier_pct.kind = "None" <=>
                     (Len(non_null) <= 20 \/ Outliers(non_null) = 0)
               /\ prof.outlier_pct.kind # "None" =>
                     prof.outlier_pct = Float(RoundDiv(Outliers(non_null) * 10000, report.shape[1]))

C7_Witness ==
    /\ pc = "done"
    /\ \E k \in DOMAIN data.columns :
          /\ IsNumeric(k) /\ Cardinality(Present(k)) > 20
          /\ ProfileOf(k).std = Float(0)
          /\ ProfileOf(k).skewness = Float(0)
          /\ ProfileOf(k).outlier_pct = None

\* C8: near_zero_variance is true iff unique_count > 0 and some value holds
\* more than 95% of the non-missing cells; dominant_value_pct is the largest
\* share in percent rounded to one decimal, absent exactly when unique_count
\* is 0; 99 equal values among 100 give 99.0 and true.
C8_DominantValue ==
    pc = "done" =>
        \A k \in DOMAIN data.columns :
            LET n == Cardinality(Present(k))
                prof == ProfileOf(k)
            IN /\ prof.near_zero_variance =
                     Bool(/\ prof.unique_count.val > 0
                          /\ \E j \in Present(k) : 100 * Cardinality(Same(k, j)) > 95 * n)
               /\ prof.dominant_value_pct.kind = "None" <=> prof.unique_count.val = 0
               /\ prof.unique_count.val > 0 =>
                     \E j \in Present(k) :
                        /\ \A h \in Present(k) : Cardinality(Same(k, h)) <= Cardinality(Same(k, j))
                        /\ prof.dominant_value_pct =
                              Float(RoundDiv(1000 * Cardinality(Same(k, j)), n))
               /\ (n = 100 /\ \E j \in Present(k) : Cardinality(Same(k, j)) = 99) =>
                     /\ prof.dominant_value_pct = Float(990)
                     /\ prof.near_zero_variance = Bool(TRUE)

C8_Witness ==
    /\ pc = "done"
    /\ \E k \in DOMAIN data.columns :
          /\ Cardinality(Present(k)) = 100
          /\ \E j \in Present(k) : Cardinality(Same(k, j)) = 99
          /\ ProfileOf(k).near_zero_variance = Bool(TRUE)

C10_OneEntryPerColumn ==
    (pc = "done" /\ data.rows >= 1) =>
        /\ \A k \in DOMAIN data.columns :
              /\ ColumnOf(k).label \in DOMAIN report.column_profiles
              /\ str(ColumnOf(k).label) \in DOMAIN report.column_name_profiles
        /\ Cardinality(DOMAIN report.column_profiles) = Len(data.columns)
        /\ Cardinality(DOMAIN report.column_name_profiles) = Len(data.columns)

====
